---- MODULE Spec2Model ----
(***************************************************************************)
(* BankRisk Pro loan pricing (src/Pricing.py, an HTML page with inline     *)
(* JavaScript): the pricing functions and the click handler of the         *)
(* "compute" button.                                                       *)
(*                                                                         *)
(* Numbers.  JavaScript computes in IEEE doubles; the model computes the   *)
(* same expressions in exact arithmetic:                                   *)
(*   - percentages that enter or leave the rate band (OIBOR, cost of       *)
(*     funds, rates, provisions ...) are integers in units of 1/10000 of   *)
(*     a percentage point (PCT units): 12.00 % is 120000;                  *)
(*   - spreads are integers in basis points;                               *)
(*   - risk factors, the composite risk, PD and LGD are exact rationals    *)
(*     <<n, d>> in lowest terms with d > 0;                                *)
(*   - money (loan quantum, sales) is an integer number of thousand OMR.   *)
(* TLC's integers are 32 bit and TLC stops with an error on overflow, so a *)
(* finished run computed every value exactly.                              *)
(***************************************************************************)
EXTENDS Integers, Sequences, FiniteSets, TLC

VARIABLES form, rows, loc, call

vars == <<form, rows, loc, call>>

----------------------------------------------------------------------------
(* Exact rational arithmetic standing in for the JavaScript Number type.   *)

Abs(x) == IF x < 0 THEN -x ELSE x

RECURSIVE GCD(_, _)
GCD(a, b) == IF b = 0 THEN a ELSE GCD(b, a % b)

\* n/d in lowest terms (d > 0)
Rat(n, d) == LET g == GCD(Abs(n), d) IN IF g = 0 THEN <<0, 1>> ELSE <<n \div g, d \div g>>

RInt(k) == <<k, 1>>

\* x * y, cross-reduced before multiplying
RMul(x, y) ==
    LET g1 == GCD(Abs(x[1]), y[2])
        g2 == GCD(Abs(y[1]), x[2])
        a  == IF g1 = 0 THEN 0 ELSE x[1] \div g1
        b  == IF g2 = 0 THEN 0 ELSE y[1] \div g2
        c  == IF g2 = 0 THEN x[2] ELSE x[2] \div g2
        e  == IF g1 = 0 THEN y[2] ELSE y[2] \div g1
    IN  Rat(a * b, c * e)

RAdd(x, y) ==
    LET g == GCD(x[2], y[2])
    IN  Rat(x[1] * (y[2] \div g) + y[1] * (x[2] \div g), (x[2] \div g) * y[2])

RNeg(x) == <<-x[1], x[2]>>

RSub(x, y) == RAdd(x, RNeg(y))

\* x / y for y > 0
RDiv(x, y) == RMul(x, <<y[2], y[1]>>)

Max2(a, b) == IF a >= b THEN a ELSE b

Min2(a, b) == IF a <= b THEN a ELSE b

\* the largest of 16, 4, 2 for which base * c stays below 2^31: the number of
\* values one step of MulDiv takes from b
MulDivBase(c) == IF c < 60000000 THEN 16 ELSE IF c < 250000000 THEN 4 ELSE 2

\* <<q, r>> of a * b by c from h = <<q, r>> of a * (b \div base) and d = b % base
MulDivStep(h, a, d, c, base) ==
    << base * h[1] + d * (a \div c) + ((base * h[2] + d * (a % c)) \div c),
       (base * h[2] + d * (a % c)) % c >>

\* a * b = q * c + r with 0 <= r < c, for a, b >= 0, without forming a * b
RECURSIVE MulDiv(_, _, _)
MulDiv(a, b, c) ==
    IF a = 0 \/ b = 0 THEN <<0, 0>>
    ELSE MulDivStep(MulDiv(a, b \div MulDivBase(c), c), a, b % MulDivBase(c), c, MulDivBase(c))

\* a * b <= c * d for a, b, c, d >= 0, the products compared as quotient and
\* remainder by 50000000 where they would not fit
Small(a) == a < 30000

WideLe(a, b, c, d) ==
    IF Small(a) /\ Small(b) /\ Small(c) /\ Small(d) THEN a * b <= c * d
    ELSE LET ab == MulDiv(Max2(a, b), Min2(a, b), 50000000)
             cd == MulDiv(Max2(c, d), Min2(c, d), 50000000)
         IN  ab[1] < cd[1] \/ (ab[1] = cd[1] /\ ab[2] <= cd[2])

\* x <= y: the whole parts first, then the fractional parts cross-multiplied
RLe(x, y) ==
    LET qx == x[1] \div x[2]
        qy == y[1] \div y[2]
    IN  IF qx # qy THEN qx < qy
        ELSE WideLe(x[1] % x[2], y[2], y[1] % y[2], x[2])

RLt(x, y) == ~RLe(y, x)

RMax(x, y) == IF RLe(x, y) THEN y ELSE x

RMin(x, y) == IF RLe(x, y) THEN x ELSE y

\* Math.round of a rational: floor(x + 1/2)
RRound(x) == (x[1] \div x[2]) + (IF 2 * (x[1] % x[2]) >= x[2] THEN 1 ELSE 0)

----------------------------------------------------------------------------
(* Formatters *)

\* f2 on a PCT value: parseFloat(x.toFixed(2)), to the nearest hundredth of a
\* percentage point (100 PCT units)
f2(x) == ((x + 50) \div 100) * 100

\* f2(a * b) for nonnegative rationals a, b, as a PCT value
f2mul(a, b) ==
    LET y  == RMul(b, RInt(100))
        g1 == GCD(a[1], y[2])
        g2 == GCD(y[1], a[2])
        n1 == IF g1 = 0 THEN 0 ELSE a[1] \div g1
        n2 == IF g2 = 0 THEN 0 ELSE y[1] \div g2
        c  == (IF g2 = 0 THEN a[2] ELSE a[2] \div g2) * (IF g1 = 0 THEN y[2] ELSE y[2] \div g1)
        qr == MulDiv(n1, n2, c)
    IN  (qr[1] + (IF 2 * qr[2] >= c THEN 1 ELSE 0)) * 100

----------------------------------------------------------------------------
(* Product and industry factors *)

PRODUCTS_FUND == {"Asset Backed Loan", "Term Loan", "Export Finance"}

PRODUCTS_UTIL == {"Working Capital", "Trade Finance", "Supply Chain Finance", "Vendor Finance"}

Products == PRODUCTS_FUND \cup PRODUCTS_UTIL

Industries == {"Construction", "Real Estate", "Mining", "Hospitality", "Retail",
               "Manufacturing", "Trading", "Logistics", "Oil & Gas", "Healthcare",
               "Utilities", "Agriculture"}

productFactor(p) ==
    CASE p = "Asset Backed Loan"    -> Rat(135, 100)
      [] p = "Term Loan"            -> Rat(120, 100)
      [] p = "Export Finance"       -> Rat(110, 100)
      [] p = "Vendor Finance"       -> Rat(95, 100)
      [] p = "Supply Chain Finance" -> Rat(90, 100)
      [] p = "Trade Finance"        -> Rat(85, 100)
      [] p = "Working Capital"      -> Rat(95, 100)

industryFactor(i) ==
    CASE i = "Construction"  -> Rat(140, 100)
      [] i = "Real Estate"   -> Rat(130, 100)
      [] i = "Mining"        -> Rat(130, 100)
      [] i = "Hospitality"   -> Rat(125, 100)
      [] i = "Retail"        -> Rat(115, 100)
      [] i = "Manufacturing" -> Rat(110, 100)
      [] i = "Trading"       -> Rat(105, 100)
      [] i = "Logistics"     -> Rat(100, 100)
      [] i = "Oil & Gas"     -> Rat(95, 100)
      [] i = "Healthcare"    -> Rat(90, 100)
      [] i = "Utilities"     -> Rat(85, 100)
      [] i = "Agriculture"   -> Rat(115, 100)

\* median utilization per industry, in hundredths
uMedMap(i) ==
    CASE i = "Trading"       -> 65
      [] i = "Manufacturing" -> 55
      [] i = "Construction"  -> 40
      [] i = "Logistics"     -> 60
      [] i = "Retail"        -> 50
      [] i = "Healthcare"    -> 45
      [] i = "Hospitality"   -> 35
      [] i = "Oil & Gas"     -> 50
      [] i = "Real Estate"   -> 30
      [] i = "Utilities"     -> 55
      [] i = "Mining"        -> 45
      [] i = "Agriculture"   -> 40

----------------------------------------------------------------------------
(* Helper functions *)

\* clamp on integers (PCT values, basis points)
clamp(x, lo, hi) == IF (IF x < hi THEN x ELSE hi) > lo THEN (IF x < hi THEN x ELSE hi) ELSE lo

\* clamp on rationals
rclamp(x, lo, hi) == RMax(lo, RMin(x, hi))

\* malaaFactor with the slope's sign flipped: the factor rises with the score
malaaFactorRising(score) ==
    rclamp(RAdd(Rat(55, 100), RMul(RInt(score - 300), RDiv(Rat(90, 100), RInt(600)))),
           Rat(55, 100), Rat(145, 100))

malaaFactor(score) ==
    rclamp(RSub(Rat(145, 100), RMul(RInt(score - 300), RDiv(Rat(90, 100), RInt(600)))),
           Rat(55, 100), Rat(145, 100))

ltvFactor(ltv) ==
    rclamp(RAdd(Rat(55, 100), RMul(Rat(75, 10000), RInt(ltv))), Rat(80, 100), Rat(150, 100))

\* wcsFactor with a fallback of 1.00 for sales <= 0
wcsFactorFallbackOne(wc, sales) ==
    IF sales <= 0 THEN Rat(100, 100)
    ELSE LET ratio == Rat(wc, sales)
         IN  rclamp(RAdd(Rat(70, 100), RMin(ratio, Rat(12, 10))), Rat(70, 100), Rat(170, 100))

wcsFactor(wc, sales) ==
    IF sales <= 0 THEN Rat(120, 100)
    ELSE LET ratio == Rat(wc, sales)
         IN  rclamp(RAdd(Rat(70, 100), RMin(ratio, Rat(12, 10))), Rat(70, 100), Rat(170, 100))

RISK_MIN == Rat(4, 10)

RISK_MAX == Rat(35, 10)

\* pf * inf * mf * rf, the argument of the clamp in compositeRisk
rawRisk(product, industry, malaa, ltv, wc, sales, isFund) ==
    LET pf  == productFactor(product)
        inf == industryFactor(industry)
        mf  == malaaFactor(malaa)
        rf  == IF isFund THEN ltvFactor(ltv) ELSE wcsFactor(wc, sales)
    IN  RMul(RMul(RMul(pf, inf), mf), rf)

\* compositeRisk returning the product without the clamp
compositeRiskUnclamped(product, industry, malaa, ltv, wc, sales, isFund) ==
    rawRisk(product, industry, malaa, ltv, wc, sales, isFund)

compositeRisk(product, industry, malaa, ltv, wc, sales, isFund) ==
    rclamp(rawRisk(product, industry, malaa, ltv, wc, sales, isFund), RISK_MIN, RISK_MAX)

\* the interpolation table of pdFromRisk
pdXs == <<Rat(4, 10), Rat(10, 10), Rat(20, 10), Rat(35, 10)>>

pdYs == <<Rat(3, 10), Rat(10, 10), Rat(30, 10), Rat(60, 10)>>

\* the first segment i with xs[i] <= r <= xs[i+1]
RECURSIVE pdSegment(_, _)
pdSegment(r, i) ==
    IF i >= Len(pdXs) - 1 \/ (RLe(pdXs[i], r) /\ RLe(r, pdXs[i + 1]))
    THEN i ELSE pdSegment(r, i + 1)

\* ys[i] + t * (ys[i+1] - ys[i]) on segment i, the table's ends outside it
pdInterpolate(r, i) ==
    IF RLe(r, pdXs[1]) THEN pdYs[1]
    ELSE IF RLe(pdXs[Len(pdXs)], r) THEN pdYs[Len(pdYs)]
    ELSE RAdd(pdYs[i], RMul(RDiv(RSub(r, pdXs[i]), RSub(pdXs[i + 1], pdXs[i])),
                            RSub(pdYs[i + 1], pdYs[i])))

\* pd *= 2.5 in stage 2, pd *= 6.0 in stage 3
pdStageMult(stage) == IF stage = 2 THEN Rat(25, 10) ELSE IF stage = 3 THEN RInt(6) ELSE RInt(1)

pdFromRisk(r, stage) ==
    rclamp(RMul(pdInterpolate(r, pdSegment(r, 1)), pdStageMult(stage)), Rat(1, 10), RInt(60))

lgdFromProductLtv(prod, ltv, isFund) ==
    LET base == IF prod = "Term Loan" THEN 38
                ELSE IF prod = "Export Finance" THEN 35
                ELSE IF ~isFund THEN 30 ELSE 32
        over == IF ltv - 50 > 0 THEN ltv - 50 ELSE 0
        adj  == RAdd(RMul(RInt(over), Rat(25, 100)), IF ~isFund THEN RInt(8) ELSE RInt(0))
    IN  rclamp(RAdd(RInt(base), adj), RInt(25), RInt(70))

malaaLabel(score) ==
    IF score < 500 THEN "High (poor score)"
    ELSE IF score < 650 THEN "Medium-High"
    ELSE IF score < 750 THEN "Medium"
    ELSE "Low (good score)"

----------------------------------------------------------------------------
(* Pricing buckets *)

BUCKETS == <<"Low", "Medium", "High">>

BUCKET_MULT(b) ==
    CASE b = "Low" -> Rat(90, 100) [] b = "Medium" -> Rat(100, 100) [] b = "High" -> Rat(125, 100)

BUCKET_BAND_BPS(b) ==
    CASE b = "Low" -> 60 [] b = "Medium" -> 90 [] b = "High" -> 140

BUCKET_FLOOR_BPS(b) ==
    CASE b = "Low" -> 150 [] b = "Medium" -> 225 [] b = "High" -> 325

MALAA_FLOOR_BPS(lbl) ==
    CASE lbl = "High (poor score)" -> 175
      [] lbl = "Medium-High"       -> 125
      [] lbl = "Medium"            -> 75
      [] lbl = "Low (good score)"  -> 0

industryFloorAddon(indFac) ==
    IF RLe(Rat(125, 100), indFac) THEN 100
    ELSE IF RLe(Rat(110, 100), indFac) THEN 50 ELSE 0

productFloorAddon(prod) ==
    IF prod = "Asset Backed Loan" THEN 125
    ELSE IF prod \in {"Term Loan", "Export Finance"} THEN 75 ELSE 0

\* 75 + 350 * (risk - 1.0), in basis points
baseSpreadFromRisk(risk) ==
    RAdd(RInt(75), RMul(RInt(350), RSub(risk, RInt(1))))

----------------------------------------------------------------------------
(* Cash flow calculations: fund loans                                      *)
(*                                                                         *)
(* Money inside the cash flow functions is an integer number of mOMR       *)
(* (1/1000 OMR); f2 of an amount rounds it to 10 mOMR.  Powers of 1 + i    *)
(* are fixed-point numbers with 8 decimals.  The amortised amounts (EMI,   *)
(* balances, sums) are therefore the page's values up to a relative error  *)
(* of about 1e-6, where every other number of the model is exact.          *)

\* the string "Breakeven not within the tenor"; numeric results are >= 0
NotWithinTenor == -1

\* an amount of thousand OMR (the unit of the form fields) in mOMR
MilliOmr(kOmr) == kOmr * 1000000

\* a * b / c rounded toward zero, for c > 0 and any signs of a and b
SMulDiv(a, b, c) ==
    IF (a < 0) = (b < 0)
    THEN MulDiv(Max2(Abs(a), Abs(b)), Min2(Abs(a), Abs(b)), c)[1]
    ELSE -(MulDiv(Max2(Abs(a), Abs(b)), Min2(Abs(a), Abs(b)), c)[1])

\* f2 on an amount in mOMR
f2m(x) == IF x >= 0 THEN ((x + 5) \div 10) * 10 ELSE -(((5 - x) \div 10) * 10)

\* a * p / 12000000 rounded down for a, p >= 0 (p below 2000000), the product
\* formed in parts that fit: a = ah * 10^4 + al, p = ph * 10^3 + pl
monthlyParts(ah, al, ph, pl) ==
    ((ah * ph * 5) \div 6)
      + ((((ah * ph * 5) % 6) * 2000 + ah * pl * 10 + al * ph + ((al * pl) \div 1000)) \div 12000)

\* a * (pct/100.0/12.0): one month of the annual percentage pct on amount a,
\* rounded toward zero
monthlyOf(a, pct) ==
    IF (a < 0) = (pct < 0)
    THEN monthlyParts(Abs(a) \div 10000, Abs(a) % 10000, Abs(pct) \div 1000, Abs(pct) % 1000)
    ELSE -monthlyParts(Abs(a) \div 10000, Abs(a) % 10000, Abs(pct) \div 1000, Abs(pct) % 1000)

\* (pct/100.0) * a: the annual percentage pct of amount a
annualOf(a, pct) == SMulDiv(a, pct, 1000000)

\* the product of two fixed-point numbers with 8 decimals
fxMul(a, b) ==
    (a \div 10000) * (b \div 10000)
      + (((a \div 10000) * (b % 10000) + (a % 10000) * (b \div 10000)
          + (((a % 10000) * (b % 10000)) \div 10000)) \div 10000)

\* Math.pow(x, n) for a fixed-point x and an integer n >= 0
RECURSIVE fxPow(_, _)
fxPow(x, n) ==
    IF n = 0 THEN 100000000
    ELSE LET h == fxPow(x, n \div 2)
         IN  IF n % 2 = 0 THEN fxMul(h, h) ELSE fxMul(fxMul(h, h), x)

\* 1 + i for i = ratePct/100.0/12.0, fixed-point
onePlusI(ratePct) == 100000000 + ((ratePct * 50 + 3) \div 6)

\* P * i * pw / (pw - 1) for the amount Pi = P * i and the power pw = (1+i)^n
emiFromPow(Pi, pw) == SMulDiv(Pi, pw, pw - 100000000)

\* EMI = P * i * Math.pow(1+i, tenorM) / (Math.pow(1+i, tenorM) - 1)
EMIof(P, tenorM, ratePct) ==
    emiFromPow(monthlyOf(P, ratePct), fxPow(onePlusI(ratePct), tenorM))

\* i <= 0 || tenorM <= 0 || P <= 0
cashGuard(P, tenorM, ratePct) == ratePct <= 0 \/ tenorM <= 0 \/ P <= 0

\* one pass of the body shared by the two monthly loops: the month's net
\* margin (interest + fee - (funding + prov + opex), the terms on the balance
\* summed before the one rounding) and the balance after the repayment
monthFlow(bal, interest, P, EMI, ratePct, feesPct, cofPct, provPct, opexPct) ==
    [ net |-> monthlyOf(bal, ratePct - (cofPct + provPct + opexPct)) + monthlyOf(P, feesPct),
      bal |-> Max2(bal - (EMI - interest), 0) ]

\* let bal = P, sumNet12 = 0, sumBal12 = 0 and the loop counter m = 0
firstYearStart(P) == [ m |-> 0, bal |-> P, sumNet |-> 0, sumBal |-> 0 ]

\* the loop variables after the body of month s.m and m++
firstYearMonth(s, P, EMI, ratePct, feesPct, cofPct, provPct, opexPct) ==
    [ m      |-> s.m + 1,
      bal    |-> monthFlow(s.bal, monthlyOf(s.bal, ratePct), P, EMI, ratePct, feesPct, cofPct,
                           provPct, opexPct).bal,
      sumNet |-> s.sumNet + monthFlow(s.bal, monthlyOf(s.bal, ratePct), P, EMI, ratePct, feesPct,
                                      cofPct, provPct, opexPct).net,
      sumBal |-> s.sumBal + s.bal ]

\* for(let m = 0; m < months; m++) { ... }: the loop variables after at most
\* n further passes from s
RECURSIVE firstYearLoop(_, _, _, _, _, _, _, _, _, _)
firstYearLoop(s, n, months, P, EMI, ratePct, feesPct, cofPct, provPct, opexPct) ==
    IF s.m >= months \/ n = 0 THEN s
    ELSE IF n = 1 THEN firstYearMonth(s, P, EMI, ratePct, feesPct, cofPct, provPct, opexPct)
    ELSE firstYearLoop(firstYearLoop(s, n \div 2, months, P, EMI, ratePct, feesPct, cofPct,
                                     provPct, opexPct),
                       n - (n \div 2), months, P, EMI, ratePct, feesPct, cofPct, provPct, opexPct)

\* [f2(EMI), f2(NIIannual), f2(AEA12), f2(NIMpct)] from EMI and the loop's sums
firstYearResult(EMI, months, s) ==
    [ EMI       |-> f2m(EMI),
      NIIannual |-> f2m(s.sumNet),
      AEA12     |-> f2m(Max2(s.sumBal \div months, 1)),
      NIMpct    |-> f2(SMulDiv(s.sumNet, 1000000, Max2(s.sumBal \div months, 1))) ]

\* fundFirstYearMetrics past its guard, with EMI given
firstYearFrom(EMI, months, P, repRate, feesPct, cofPct, provPct, opexPct) ==
    firstYearResult(EMI, months,
                    firstYearLoop(firstYearStart(P), months, months, P, EMI, repRate, feesPct,
                                  cofPct, provPct, opexPct))

\* P and the result's amounts in mOMR, the percentages in PCT units
fundFirstYearMetrics(P, tenorM, repRate, feesPct, cofPct, provPct, opexPct) ==
    IF cashGuard(P, tenorM, repRate)
    THEN [ EMI |-> 0, NIIannual |-> 0, AEA12 |-> 1000, NIMpct |-> 0 ]
    ELSE firstYearFrom(EMIof(P, tenorM, repRate), Min2(12, tenorM), P, repRate, feesPct, cofPct,
                       provPct, opexPct)

\* breakevenStart with the cumulative net starting at 0
breakevenStartZero(P, upfrontCostPct) ==
    [ m |-> 1, bal |-> P, cum |-> 0, ret |-> 0 ]

\* the loop variables of fundBreakevenMonths on entry to the loop; ret is the
\* month the loop returned, 0 while it has not returned
breakevenStart(P, upfrontCostPct) ==
    [ m |-> 1, bal |-> P, cum |-> -annualOf(P, upfrontCostPct), ret |-> 0 ]

\* one pass of the loop for month s.m: the body, then return m or m++
breakevenMonth(s, P, EMI, ratePct, feesPct, cofPct, provPct, opexPct) ==
    LET f == monthFlow(s.bal, monthlyOf(s.bal, ratePct), P, EMI, ratePct, feesPct, cofPct,
                       provPct, opexPct)
    IN  [ m   |-> IF s.cum + f.net >= 0 THEN s.m ELSE s.m + 1,
          bal |-> f.bal,
          cum |-> s.cum + f.net,
          ret |-> IF s.cum + f.net >= 0 THEN s.m ELSE 0 ]

\* for(let m = 1; m <= tenorM; m++) { ... if(cum >= 0) return m; }: the loop
\* variables after at most n further passes from s
RECURSIVE breakevenLoop(_, _, _, _, _, _, _, _, _, _)
breakevenLoop(s, n, tenorM, P, EMI, ratePct, feesPct, cofPct, provPct, opexPct) ==
    IF s.ret # 0 \/ s.m > tenorM \/ n = 0 THEN s
    ELSE IF n = 1 THEN breakevenMonth(s, P, EMI, ratePct, feesPct, cofPct, provPct, opexPct)
    ELSE breakevenLoop(breakevenLoop(s, n \div 2, tenorM, P, EMI, ratePct, feesPct, cofPct,
                                     provPct, opexPct),
                       n - (n \div 2), tenorM, P, EMI, ratePct, feesPct, cofPct, provPct, opexPct)

\* the value returned once the loop has ended in s
breakevenResult(s) == IF s.ret # 0 THEN s.ret ELSE NotWithinTenor

fundBreakevenMonths(P, tenorM, ratePct, feesPct, cofPct, provPct, opexPct, upfrontCostPct) ==
    IF cashGuard(P, tenorM, ratePct) THEN NotWithinTenor
    ELSE breakevenResult(breakevenLoop(breakevenStart(P, upfrontCostPct), tenorM, tenorM, P,
                                       EMIof(P, tenorM, ratePct), ratePct, feesPct, cofPct,
                                       provPct, opexPct))

----------------------------------------------------------------------------
(* Cash flow calculations: utilization loans *)

\* Math.ceil(n / d) for d > 0
Ceil(n, d) == -((-n) \div d)

\* limitOrWc in thousand OMR, rates in PCT units, u in hundredths:
\* C0 / (NIIannual / 12) = (12 * 100 * upfront * L) / (margin * L * u)
utilMetrics(limitOrWc, industry, repRate, feesPct, cofPct, provPct, opexPct, upfrontCostPct) ==
    LET u         == uMedMap(industry)
        L         == IF limitOrWc > 0 THEN limitOrWc ELSE 0
        EADx100   == L * u
        marginPct == repRate + feesPct - (cofPct + provPct + opexPct)
        mBe       == Ceil(12 * 100 * upfrontCostPct * L, marginPct * EADx100)
    IN  [ EAD       |-> f2m(L * 10000 * u),
          NIMpct    |-> f2(marginPct),
          NIIannual |-> f2m(annualOf(L * 10000 * u, marginPct)),
          beRep     |-> IF marginPct > 0 /\ EADx100 > 0
                        THEN (IF mBe > 0 THEN mBe ELSE 1)
                        ELSE NotWithinTenor,
          uPct      |-> u * 10000 ]

\* the closure utilBe(rate) of the handler
utilBe(rate, feesPct, cofPct, provPct, opexPct, upfrontCostPct, loanQuantumOmr, industry, tenorMonths) ==
    LET margin == rate + feesPct - (cofPct + provPct + opexPct)
        m      == Ceil(12 * 100 * upfrontCostPct * loanQuantumOmr,
                       margin * loanQuantumOmr * uMedMap(industry))
    IN  IF margin <= 0 \/ loanQuantumOmr <= 0 THEN NotWithinTenor
        ELSE IF m <= tenorMonths THEN m ELSE NotWithinTenor

----------------------------------------------------------------------------
(* Main computation: the click handler of #compute *)

\* a form field holds <<v>> (text that parses to the number v) or <<>> (empty
\* or unparseable text, for which parseFloat / parseInt give NaN)
parsed(field) == field # <<>>

\* parseFloat(value) || 0  and  parseInt(value) || 0
numOr0(field) == IF parsed(field) /\ field[1] # 0 THEN field[1] ELSE 0

\* parseInt(value) || 1
numOr1(field) == IF parsed(field) /\ field[1] # 0 THEN field[1] ELSE 1

RATE_MIN == 50000

RATE_MAX == 120000

FUND_FLOOR == 60000

minCoreSpreadBps == 125

Max3(a, b, c) == Max2(Max2(a, b), c)

\* the parsed inputs of one click
inputs(f) ==
    LET product == f.product
        isFund  == product \in PRODUCTS_FUND
        loan    == numOr0(f.loan_quantum)
        feesDef == numOr0(f.fees_default)
    IN  [ oiborPct       |-> numOr0(f.oibor),
          cofPct         |-> numOr0(f.cof),
          targetNimPct   |-> numOr0(f.target_nim),
          opexPct        |-> numOr0(f.opex),
          feesDefault    |-> feesDef,
          upfrontCostPct |-> numOr0(f.upfront_cost),
          product        |-> product,
          industry       |-> f.industry,
          malaaScore     |-> numOr0(f.malaa),
          stage          |-> numOr1(f.stage),
          tenorMonths    |-> numOr0(f.tenor),
          loanQuantumOmr |-> loan,
          isFund         |-> isFund,
          \* isFund ? ltvPct : 60.0, the only use of ltvPct that reaches a row
          ltvArg         |-> IF isFund THEN numOr0(f.ltv) ELSE 60,
          wcOmr          |-> IF isFund THEN 0 ELSE loan,
          salesOmr       |-> IF isFund THEN 0 ELSE numOr0(f.sales),
          feesPct        |-> IF isFund
                             THEN (IF product = "Export Finance" THEN feesDef ELSE 0)
                             ELSE feesDef ]

riskBaseOf(in) ==
    compositeRisk(in.product, in.industry, in.malaaScore, in.ltvArg, in.wcOmr, in.salesOmr, in.isFund)

\* riskB
bucketRisk(riskBase, bucket) == rclamp(RMul(riskBase, BUCKET_MULT(bucket)), RISK_MIN, RISK_MAX)

\* provPct = f2(pdPct * (lgdPct / 100.0))
bucketProv(in, riskB) ==
    f2mul(pdFromRisk(riskB, in.stage),
          RDiv(lgdFromProductLtv(in.product, in.ltvArg, in.isFund), RInt(100)))

bucketFloors(in, bucket) ==
    BUCKET_FLOOR_BPS(bucket) + MALAA_FLOOR_BPS(malaaLabel(in.malaaScore))
      + industryFloorAddon(industryFactor(in.industry)) + productFloorAddon(in.product)

bucketBaseBps(riskB, floors) ==
    Max3(RRound(baseSpreadFromRisk(riskB)), floors, minCoreSpreadBps)

initSpreadMin(baseBps, bandBps, floors) == Max3(baseBps - bandBps, floors, minCoreSpreadBps)

initSpreadMax(baseBps, bandBps, spreadMinBps) == Max2(baseBps + bandBps, spreadMinBps + 10)

\* clamp(oiborPct + spreadBps / 100.0, 5.00, 12.00)
spreadToRate(oiborPct, spreadBps) == clamp(oiborPct + spreadBps * 100, RATE_MIN, RATE_MAX)

\* the fund floor applied to one of rateMin, rateMax, repRate
fundFloor(rate, isFund) == IF isFund THEN Max2(rate, FUND_FLOOR) ELSE rate

requiredRateOf(cofPct, provPct, opexPct, feesPct, targetNimPct) ==
    f2(cofPct + provPct + opexPct - feesPct + targetNimPct)

\* the lift with the required rate first clamped to the market band
liftToRequiredCapped(repRate, requiredRate) ==
    Max2(repRate, clamp(requiredRate, RATE_MIN, RATE_MAX))

\* repRate = Math.max(repRate, requiredRate)
liftToRequired(repRate, requiredRate) == Max2(repRate, requiredRate)

\* halfBand = bandBps / 200.0, in PCT units
halfBandOf(bandBps) == bandBps * 50

\* the lower band end taken above the center (sign slip)
rebuildMinAbove(repRate, halfBand) == clamp(repRate + halfBand, RATE_MIN, RATE_MAX)

rebuildMin(repRate, halfBand) == clamp(repRate - halfBand, RATE_MIN, RATE_MAX)

\* the upper band end without the clamp to the market band
rebuildMaxUnclamped(repRate, halfBand, rateMin) ==
    IF repRate + halfBand - rateMin < 1000 THEN rateMin + 1000 ELSE repRate + halfBand

rebuildMax(repRate, halfBand, rateMin) ==
    LET rmax == clamp(repRate + halfBand, RATE_MIN, RATE_MAX)
    IN  IF rmax - rateMin < 1000 THEN clamp(rateMin + 1000, RATE_MIN, RATE_MAX) ELSE rmax

\* Math.round((rate - oiborPct) * 100)
roundBps(rate, oiborPct) == (rate - oiborPct + 50) \div 100

\* flMinBps without the minimum core spread
floatMinBpsUnfloored(rateMin, oiborPct) == roundBps(rateMin, oiborPct)

floatMinBps(rateMin, oiborPct) == Max2(roundBps(rateMin, oiborPct), minCoreSpreadBps)

\* flMaxBps floored at flMinBps, without the gap of 10
floatMaxBpsNoGap(rateMax, oiborPct, flMinBps) == Max2(roundBps(rateMax, oiborPct), flMinBps)

floatMaxBps(rateMax, oiborPct, flMinBps) == Max2(roundBps(rateMax, oiborPct), flMinBps + 10)

\* the risk, provision, floors, base spread and band width of one bucket
bucketCredit(in, riskBase, bucket, riskB, floors) ==
    [ bucket |-> bucket, riskBase |-> riskBase, riskB |-> riskB,
      provPct |-> bucketProv(in, riskB), floors |-> floors,
      baseBps |-> bucketBaseBps(riskB, floors), bandBps |-> BUCKET_BAND_BPS(bucket) ]

\* the band of one bucket: initial band, fund floor, Target NIM floor,
\* rebuilt band and floating spreads
bucketBand(in, c) ==
    LET provPct      == c.provPct
        floors       == c.floors
        baseBps      == c.baseBps
        bandBps      == c.bandBps
        spreadMinBps == initSpreadMin(baseBps, bandBps, floors)
        spreadMaxBps == initSpreadMax(baseBps, bandBps, spreadMinBps)
        rateMin0     == spreadToRate(in.oiborPct, spreadMinBps)
        rateMax0     == spreadToRate(in.oiborPct, spreadMaxBps)
        repRate0     == (rateMin0 + rateMax0) \div 2
        repRate1     == fundFloor(repRate0, in.isFund)
        requiredRate == requiredRateOf(in.cofPct, provPct, in.opexPct, in.feesPct, in.targetNimPct)
        repRate      == liftToRequired(repRate1, requiredRate)
        halfBand     == halfBandOf(bandBps)
        rateMin      == rebuildMin(repRate, halfBand)
        rateMax      == rebuildMax(repRate, halfBand, rateMin)
        flMinBps     == floatMinBps(rateMin, in.oiborPct)
        flMaxBps     == floatMaxBps(rateMax, in.oiborPct, flMinBps)
    IN  [ bucket |-> c.bucket, riskBase |-> c.riskBase, riskB |-> c.riskB,
          provPct |-> provPct, floors |-> floors, baseBps |-> baseBps, bandBps |-> bandBps,
          spreadMinBps |-> spreadMinBps, spreadMaxBps |-> spreadMaxBps,
          requiredRate |-> requiredRate, repRate |-> repRate,
          rateMin |-> rateMin, rateMax |-> rateMax,
          flMinBps |-> flMinBps, flMaxBps |-> flMaxBps ]

\* the locals of one pass of the loop over BUCKETS
bucketLocals(in, riskBase, bucket) ==
    bucketBand(in, bucketCredit(in, riskBase, bucket, bucketRisk(riskBase, bucket),
                                bucketFloors(in, bucket)))

\* the decomposed annual components of a row on the exposure base (AEA12 or
\* EAD, in mOMR) and their sum nii; the fee is charged on the loan quantum
annualComponents(in, l, base) ==
    [ annualInterest |-> f2m(annualOf(base, l.repRate)),
      annualFee      |-> f2m(annualOf(MilliOmr(in.loanQuantumOmr), in.feesPct)),
      annualFunding  |-> f2m(annualOf(base, in.cofPct)),
      annualProv     |-> f2m(annualOf(base, l.provPct)),
      annualOpex     |-> f2m(annualOf(base, in.opexPct)) ]

\* nii = f2(annualInterest + annualFee - (annualFunding + annualProv + annualOpex))
niiOf(c) ==
    f2m(c.annualInterest + c.annualFee - (c.annualFunding + c.annualProv + c.annualOpex))

\* the object pushed to rows for a fund product, fm the result of
\* fundFirstYearMetrics at repRate
fundRow(in, l, fm) ==
    [ bucket |-> l.bucket, flMinBps |-> l.flMinBps, flMaxBps |-> l.flMaxBps,
      rateMin |-> f2(l.rateMin), repRate |-> f2(l.repRate), rateMax |-> f2(l.rateMax),
      EMI |-> f2m(fm.EMI),
      nii |-> niiOf(annualComponents(in, l, fm.AEA12)),
      NIMpct |-> f2(fm.NIMpct),
      beMin |-> fundBreakevenMonths(MilliOmr(in.loanQuantumOmr), in.tenorMonths, l.rateMin,
                                    in.feesPct, in.cofPct, l.provPct, in.opexPct,
                                    in.upfrontCostPct),
      beRep |-> fundBreakevenMonths(MilliOmr(in.loanQuantumOmr), in.tenorMonths, l.repRate,
                                    in.feesPct, in.cofPct, l.provPct, in.opexPct,
                                    in.upfrontCostPct),
      beMax |-> fundBreakevenMonths(MilliOmr(in.loanQuantumOmr), in.tenorMonths, l.rateMax,
                                    in.feesPct, in.cofPct, l.provPct, in.opexPct,
                                    in.upfrontCostPct),
      malaaLbl |-> malaaLabel(in.malaaScore), riskBase |-> f2mul(l.riskBase, RInt(1)),
      provPct |-> f2(l.provPct) ]

\* the object pushed to rows for a utilization product, um the result of
\* utilMetrics at repRate
utilRow(in, l, um) ==
    [ bucket |-> l.bucket, flMinBps |-> l.flMinBps, flMaxBps |-> l.flMaxBps,
      rateMin |-> f2(l.rateMin), repRate |-> f2(l.repRate), rateMax |-> f2(l.rateMax),
      nii |-> niiOf(annualComponents(in, l, um.EAD)),
      NIMpct |-> f2(um.NIMpct),
      beMin |-> utilBe(l.rateMin, in.feesPct, in.cofPct, l.provPct, in.opexPct,
                       in.upfrontCostPct, in.loanQuantumOmr, in.industry, in.tenorMonths),
      beRep |-> um.beRep,
      beMax |-> utilBe(l.rateMax, in.feesPct, in.cofPct, l.provPct, in.opexPct,
                       in.upfrontCostPct, in.loanQuantumOmr, in.industry, in.tenorMonths),
      malaaLbl |-> malaaLabel(in.malaaScore), riskBase |-> f2mul(l.riskBase, RInt(1)),
      provPct |-> f2(l.provPct),
      optimalUtil |-> f2(um.uPct) ]

\* the object pushed to rows for one bucket
bucketRow(in, l) ==
    IF in.isFund
    THEN fundRow(in, l, fundFirstYearMetrics(MilliOmr(in.loanQuantumOmr), in.tenorMonths,
                                             l.repRate, in.feesPct, in.cofPct, l.provPct,
                                             in.opexPct))
    ELSE utilRow(in, l, utilMetrics(in.loanQuantumOmr, in.industry, l.repRate, in.feesPct,
                                    in.cofPct, l.provPct, in.opexPct, in.upfrontCostPct))

\* click on #compute: every input is read, the three buckets are priced in
\* the order of BUCKETS and the table replaces the content of #results
Compute ==
    /\ loc'  = [k \in 1..Len(BUCKETS) |->
                   bucketLocals(inputs(form), riskBaseOf(inputs(form)), BUCKETS[k])]
    /\ rows' = [k \in 1..Len(BUCKETS) |-> bucketRow(inputs(form), loc'[k])]
    /\ UNCHANGED <<form, call>>

----------------------------------------------------------------------------
(* One call of a cash flow function, a pass of its loop at a time *)

\* no call in progress
NoCall == [ pc |-> "idle" ]

\* a call on entry: its arguments, and its locals not yet set.  cums records
\* the value of cum after each pass of the loop.
callOf(fn, P, tenorM, ratePct, feesPct, cofPct, provPct, opexPct, upfrontCostPct) ==
    [ fn |-> fn, pc |-> "entry", P |-> P, tenorM |-> tenorM, ratePct |-> ratePct,
      feesPct |-> feesPct, cofPct |-> cofPct, provPct |-> provPct, opexPct |-> opexPct,
      upfrontCostPct |-> upfrontCostPct, s |-> <<>>, cums |-> <<>>, result |-> <<>> ]

callGuard == cashGuard(call.P, call.tenorM, call.ratePct)

callEMI == EMIof(call.P, call.tenorM, call.ratePct)

\* if(i <= 0 || tenorM <= 0 || P <= 0) return "Breakeven not within the tenor"
BreakevenGuard ==
    /\ call.pc = "entry"
    /\ call.fn = "fundBreakevenMonths"
    /\ callGuard
    /\ call' = [call EXCEPT !.pc = "done", !.result = NotWithinTenor]
    /\ UNCHANGED <<form, rows, loc>>

\* const EMI = ...; let bal = P; let cum = -C0; m = 1
BreakevenEnter ==
    /\ call.pc = "entry"
    /\ call.fn = "fundBreakevenMonths"
    /\ ~callGuard
    /\ call' = [call EXCEPT !.pc = "loop", !.s = breakevenStart(call.P, call.upfrontCostPct)]
    /\ UNCHANGED <<form, rows, loc>>

\* one pass of the loop: m <= tenorM held and the loop has not returned
BreakevenPass ==
    /\ call.pc = "loop"
    /\ call.s.ret = 0
    /\ call.s.m <= call.tenorM
    /\ call' = [call EXCEPT
                   !.s = breakevenMonth(call.s, call.P, callEMI, call.ratePct, call.feesPct,
                                        call.cofPct, call.provPct, call.opexPct),
                   !.cums = Append(@, breakevenMonth(call.s, call.P, callEMI, call.ratePct,
                                                     call.feesPct, call.cofPct, call.provPct,
                                                     call.opexPct).cum)]
    /\ UNCHANGED <<form, rows, loc>>

\* return m from inside the loop, or the sentinel after it
BreakevenReturn ==
    /\ call.pc = "loop"
    /\ call.s.ret # 0 \/ call.s.m > call.tenorM
    /\ call' = [call EXCEPT !.pc = "done", !.result = breakevenResult(call.s)]
    /\ UNCHANGED <<form, rows, loc>>

\* a whole call of fundFirstYearMetrics
FirstYear ==
    /\ call.pc = "entry"
    /\ call.fn = "fundFirstYearMetrics"
    /\ call' = [call EXCEPT
                   !.pc = "done",
                   !.result = fundFirstYearMetrics(call.P, call.tenorM, call.ratePct, call.feesPct,
                                                   call.cofPct, call.provPct, call.opexPct)]
    /\ UNCHANGED <<form, rows, loc>>

----------------------------------------------------------------------------
(* The page: the input fields and the rendered result *)

\* the first n entries of a grid of input values
FirstOf(grid, n) == {grid[k] : k \in 1..(IF n < Len(grid) THEN n ELSE Len(grid))}

\* the value attributes of the input elements
DefaultForm ==
    [ oibor |-> <<41000>>, cof |-> <<50000>>, target_nim |-> <<25000>>, opex |-> <<4000>>,
      fees_default |-> <<4000>>, upfront_cost |-> <<5000>>,
      product |-> "Asset Backed Loan", industry |-> "Construction",
      malaa |-> <<750>>, stage |-> <<1>>, tenor |-> <<36>>, loan_quantum |-> <<100>>,
      ltv |-> <<70>>, sales |-> <<600>> ]

\* Market inputs tried by Spec (PCT units), by index
OiborGrid == <<41000, 20000, 115000, 41050, 130000, 0>>

CofGrid == <<50000, 20000, 50040, 90000, 0>>

TargetGrid == <<25000, 10000, 40000, 0>>

NumOibor == 4

NumCof == 3

NumTarget == 2

SpecProducts == {"Asset Backed Loan", "Export Finance", "Working Capital"}

SpecIndustries == {"Construction", "Utilities"}

\* Scores and loan-to-value percentages tried by SpecRisk
MaxScoreStep == 6

MaxLtvStep == 7

RiskScores == {<<>>} \cup {<<300 + 100 * k>> : k \in 0..MaxScoreStep}

RiskLtvs == {<<20 * k>> : k \in 0..MaxLtvStep}

\* the field of the hidden container (ltv for utilization products, sales
\* for fund products) keeps its default
FormsOf(products, industries, scores, stages, tenors, loans, ltvs, saleses, oibors, cofs, targets) ==
    { f \in [ oibor : oibors, cof : cofs, target_nim : targets, opex : {DefaultForm.opex},
              fees_default : {DefaultForm.fees_default},
              upfront_cost : {DefaultForm.upfront_cost},
              product : products, industry : industries, malaa : scores, stage : stages,
              tenor : tenors, loan_quantum : loans, ltv : ltvs \cup {DefaultForm.ltv},
              sales : saleses \cup {DefaultForm.sales} ] :
        IF f.product \in PRODUCTS_FUND
        THEN f.sales = DefaultForm.sales /\ f.ltv \in ltvs
        ELSE f.ltv = DefaultForm.ltv /\ f.sales \in saleses }

Init ==
    /\ form \in FormsOf(SpecProducts, SpecIndustries, {<<>>, <<600>>, <<900>>},
                        {<<1>>, <<3>>}, {<<>>, <<6>>, <<36>>},
                        {<<-50>>, <<100>>}, {<<70>>}, {<<0>>, <<600>>},
                        {<<v>> : v \in FirstOf(OiborGrid, NumOibor)},
                        {<<v>> : v \in FirstOf(CofGrid, NumCof)},
                        {<<v>> : v \in FirstOf(TargetGrid, NumTarget)})
    /\ rows = <<>>
    /\ loc = <<>>
    /\ call = NoCall

\* every product and industry, a range of scores, collateral and sales, with
\* the market inputs at their defaults
InitRisk ==
    /\ form \in FormsOf(Products, Industries, RiskScores, {<<2>>}, {DefaultForm.tenor},
                        {<<-50>>, <<100>>}, RiskLtvs, {<<0>>, <<50>>, <<600>>},
                        {DefaultForm.oibor}, {DefaultForm.cof}, {DefaultForm.target_nim})
    /\ rows = <<>>
    /\ loc = <<>>
    /\ call = NoCall

\* OIBOR values tried by SpecOrder: 0.00 to MaxOiborStep / 2 in steps of 0.50
MaxOiborStep == 8

OrderOibors == {<<5000 * k>> : k \in 0..MaxOiborStep}

\* low to high risk (score, collateral, sales, stage) at an OIBOR low enough
\* for the cap 12.00 to cut some of the bands, none or all of them
InitOrder ==
    /\ form \in FormsOf(SpecProducts, SpecIndustries, {<<300>>, <<600>>, <<900>>},
                        {<<1>>, <<2>>}, {DefaultForm.tenor}, {DefaultForm.loan_quantum},
                        {<<70>>, <<100>>}, {<<0>>, <<50>>}, OrderOibors,
                        {<<20000>>, DefaultForm.cof}, {<<10000>>, DefaultForm.target_nim})
    /\ rows = <<>>
    /\ loc = <<>>
    /\ call = NoCall

Next == Compute

Spec == Init /\ [][Next]_vars

SpecRisk == InitRisk /\ [][Next]_vars

SpecOrder == InitOrder /\ [][Next]_vars

\* Tenors tried by SpecCash: 0, 1 and the multiples of 6 up to 6 * MaxTenorStep
MaxTenorStep == 4

CashTenors == {1} \cup {6 * k : k \in 0..MaxTenorStep}

\* a call of either cash flow function on a principal of 0 or 100,000 OMR,
\* at rates from 0 to the market cap, with and without fees, funded below
\* and above the lowest rate
InitCash ==
    /\ form = DefaultForm
    /\ rows = <<>>
    /\ loc = <<>>
    /\ call \in {callOf(fn, P, tenorM, ratePct, feesPct, cofPct, 6800, 4000, upfrontCostPct) :
                    fn \in {"fundBreakevenMonths", "fundFirstYearMetrics"},
                    P \in {0, MilliOmr(100)},
                    tenorM \in CashTenors,
                    ratePct \in {0, RATE_MIN, 85800, RATE_MAX},
                    feesPct \in {0, 4000},
                    cofPct \in {50000, 90000},
                    upfrontCostPct \in {0, 5000, 50000}}

NextCash == BreakevenGuard \/ BreakevenEnter \/ BreakevenPass \/ BreakevenReturn \/ FirstYear

SpecCash == InitCash /\ [][NextCash]_vars

----------------------------------------------------------------------------
(* Properties *)

\* the inputs the rendered rows were computed from (Compute leaves the form alone)
In == inputs(form)

Buckets == DOMAIN rows

\* the margin of bucket k at its displayed rate, in PCT units
MarginOf(k) == rows[k].repRate + In.feesPct - In.cofPct - rows[k].provPct - In.opexPct

InBand(rate) == RATE_MIN <= rate /\ rate <= RATE_MAX

\* C1 as stated: in every bucket row rateMin, repRate and rateMax all lie in
\* the market band [5.00, 12.00].
C1_AllRatesInBand ==
    \A k \in Buckets : InBand(rows[k].rateMin) /\ InBand(rows[k].repRate) /\ InBand(rows[k].rateMax)

\* C1 amended: in every bucket row rateMin and rateMax lie in [5.00, 12.00];
\* repRate is at least 5.00 and at most the larger of 12.00 and the rate the
\* target NIM requires, so it leaves the band only when the required rate does.
C1_BandEndsInBand ==
    \A k \in Buckets :
        /\ InBand(rows[k].rateMin)
        /\ InBand(rows[k].rateMax)
        /\ RATE_MIN <= rows[k].repRate
        /\ rows[k].repRate <= Max2(RATE_MAX, loc[k].requiredRate)

\* a stage 3 run where the required rate is above the cap and both band ends
\* were clamped to it
C1_Witness ==
    /\ In.stage = 3
    /\ \E k \in Buckets :
          /\ loc[k].requiredRate > RATE_MAX
          /\ rows[k].repRate = loc[k].requiredRate
          /\ rows[k].rateMin = RATE_MAX
          /\ rows[k].rateMax = RATE_MAX

\* C2: NIM floor.  In every bucket row the margin at the displayed repRate,
\* repRate + fees - cost of funds - provision - opex, is at least the target
\* NIM less the rounding tolerance 0.005 of requiredRate, for every product
\* and stage, also when the required rate is above the 12.00 cap.
C2_NimFloor ==
    \A k \in Buckets : MarginOf(k) >= In.targetNimPct - 50

\* the required rate is above the cap, was rounded down, and the row is
\* priced at it
C2_Witness ==
    \E k \in Buckets :
        /\ loc[k].requiredRate > RATE_MAX
        /\ rows[k].repRate = loc[k].requiredRate
        /\ MarginOf(k) < In.targetNimPct

\* C3 as stated: rate ordering.  In every bucket row
\* rateMin <= repRate <= rateMax for the final values, for any inputs.
C3_RateOrdering ==
    \A k \in Buckets : rows[k].rateMin <= rows[k].repRate /\ rows[k].repRate <= rows[k].rateMax

\* C3 amended: in every bucket row rateMin <= repRate; repRate <= rateMax
\* whenever repRate is at most 12.00, and otherwise (the required rate is
\* above the cap) rateMax is the cap 12.00, below repRate.
C3_RateOrderingUnderCap ==
    \A k \in Buckets :
        /\ rows[k].rateMin <= rows[k].repRate
        /\ rows[k].repRate <= RATE_MAX => rows[k].repRate <= rows[k].rateMax
        /\ rows[k].repRate > RATE_MAX => rows[k].rateMax = RATE_MAX

\* a row lifted to its required rate, under the cap, strictly inside its band
C3_Witness ==
    \E k \in Buckets :
        /\ loc[k].requiredRate > fundFloor(RATE_MIN, In.isFund)
        /\ rows[k].repRate = loc[k].requiredRate
        /\ rows[k].repRate < RATE_MAX
        /\ rows[k].rateMin < rows[k].repRate
        /\ rows[k].repRate < rows[k].rateMax

\* C4: risk boundedness.  The composite risk and the risk of each bucket lie
\* in [0.4, 3.5] for every product, industry, score, LTV, working capital and
\* sales.
C4_RiskBounded ==
    \A k \in DOMAIN loc :
        /\ RLe(RISK_MIN, loc[k].riskBase) /\ RLe(loc[k].riskBase, RISK_MAX)
        /\ RLe(RISK_MIN, loc[k].riskB) /\ RLe(loc[k].riskB, RISK_MAX)

\* the product of the four factors is above 3.5 and the High bucket sits at the cap
C4_Witness ==
    /\ loc # <<>>
    /\ RLt(RISK_MAX, rawRisk(In.product, In.industry, In.malaaScore, In.ltvArg,
                             In.wcOmr, In.salesOmr, In.isFund))
    /\ loc[1].riskBase = RISK_MAX
    /\ loc[3].riskB = RISK_MAX

\* C5: utilization breakeven.  For a utilization product the breakeven of the
\* row (beRep) is a month m only if the margin is positive and m <= tenorMonths,
\* and it is the sentinel whenever the margin is not positive.
C5_UtilBreakeven ==
    \A k \in Buckets :
        ~In.isFund =>
            LET margin == loc[k].repRate + In.feesPct
                            - (In.cofPct + loc[k].provPct + In.opexPct)
            IN  /\ rows[k].beRep # NotWithinTenor
                      => (margin > 0 /\ rows[k].beRep <= In.tenorMonths)
                /\ margin <= 0 => rows[k].beRep = NotWithinTenor

\* C6: input validation.  With the tenor outside [6, 360], a negative loan
\* quantum or an unparseable required field no bucket row is produced.
C6_InvalidInputNoRows ==
    (\/ In.tenorMonths < 6
     \/ In.tenorMonths > 360
     \/ In.loanQuantumOmr < 0
     \/ \E fld \in {form.tenor, form.loan_quantum, form.malaa, form.oibor, form.cof,
                    form.target_nim} : ~parsed(fld))
        => rows = <<>>

\* the distance between OIBOR + bps / 100 and a rate, in PCT units
SpreadGap(bps, rate) == Abs(In.oiborPct + bps * 100 - rate)

\* C7 as stated: the reported spreads are the final rates over OIBOR,
\* flMinBps = round((rateMin - OIBOR) * 100) and flMaxBps likewise, so that
\* OIBOR + bps / 100 gives back the rate to 2 decimals, for any OIBOR.
C7_SpreadIsRateOverOibor ==
    \A k \in Buckets :
        /\ rows[k].flMinBps = roundBps(loc[k].rateMin, In.oiborPct)
        /\ rows[k].flMaxBps = roundBps(loc[k].rateMax, In.oiborPct)
        /\ SpreadGap(rows[k].flMinBps, loc[k].rateMin) <= 50
        /\ SpreadGap(rows[k].flMaxBps, loc[k].rateMax) <= 50

\* C7 amended: flMinBps is the larger of round((rateMin - OIBOR) * 100) and
\* the minimum core spread 125, flMaxBps the larger of
\* round((rateMax - OIBOR) * 100) and flMinBps + 10; where the rounded spread
\* is the larger one, OIBOR + bps / 100 gives back the rate to 2 decimals.
C7_SpreadIsFlooredRateOverOibor ==
    \A k \in Buckets :
        LET rmin == roundBps(loc[k].rateMin, In.oiborPct)
            rmax == roundBps(loc[k].rateMax, In.oiborPct)
        IN  /\ rows[k].flMinBps = Max2(rmin, minCoreSpreadBps)
            /\ rows[k].flMaxBps = Max2(rmax, rows[k].flMinBps + 10)
            /\ rmin >= minCoreSpreadBps => SpreadGap(rows[k].flMinBps, loc[k].rateMin) <= 50
            /\ rmax >= rows[k].flMinBps + 10 => SpreadGap(rows[k].flMaxBps, loc[k].rateMax) <= 50

\* an OIBOR with three decimals, a row lifted off its initial spreads whose
\* spreads are the rounded rates over OIBOR, and a row where both floors bind
C7_Witness ==
    /\ In.oiborPct % 100 # 0
    /\ \E k \in Buckets :
          /\ rows[k].flMinBps = roundBps(loc[k].rateMin, In.oiborPct)
          /\ rows[k].flMaxBps = roundBps(loc[k].rateMax, In.oiborPct)
          /\ rows[k].flMinBps # loc[k].spreadMinBps
          /\ SpreadGap(rows[k].flMinBps, loc[k].rateMin) = 50

\* C8: fund-based rate floor.  For a fund-based product repRate, rateMin and
\* rateMax of every bucket row are at least 6.00.
C8_FundFloor ==
    \A k \in Buckets :
        In.isFund => /\ rows[k].repRate >= FUND_FLOOR
                     /\ rows[k].rateMin >= FUND_FLOOR
                     /\ rows[k].rateMax >= FUND_FLOOR

\* the scores compared with the score of the form
ProbeScores == {numOr0(sc) : sc \in RiskScores}

RiskAt(score) ==
    compositeRisk(In.product, In.industry, score, In.ltvArg, In.wcOmr, In.salesOmr, In.isFund)

\* C9: score monotonicity.  With product, industry, LTV, working capital,
\* sales and bucket fixed, a score at least the score of the form gives a
\* malaaFactor, a composite risk and a risk per bucket that are no larger.
C9_ScoreMonotone ==
    loc # <<>> =>
        \A s2 \in ProbeScores :
            s2 >= In.malaaScore =>
                /\ RLe(malaaFactor(s2), malaaFactor(In.malaaScore))
                /\ RLe(RiskAt(s2), loc[1].riskBase)
                /\ \A k \in DOMAIN loc : RLe(bucketRisk(RiskAt(s2), BUCKETS[k]), loc[k].riskB)

\* a better score that gives a strictly smaller composite risk
C9_Witness ==
    /\ loc # <<>>
    /\ \E s2 \in ProbeScores :
          /\ s2 > In.malaaScore
          /\ RLt(malaaFactor(s2), malaaFactor(In.malaaScore))
          /\ RLt(RiskAt(s2), loc[1].riskBase)
          /\ RLt(bucketRisk(RiskAt(s2), BUCKETS[2]), loc[2].riskB)

\* C10: spread ordering.  In every bucket row flMinBps >= 125 and
\* flMaxBps >= flMinBps + 10, and the same for the initial spreadMinBps and
\* spreadMaxBps.
C10_SpreadOrdering ==
    \A k \in Buckets :
        /\ rows[k].flMinBps >= minCoreSpreadBps
        /\ rows[k].flMaxBps >= rows[k].flMinBps + 10
        /\ loc[k].spreadMinBps >= minCoreSpreadBps
        /\ loc[k].spreadMaxBps >= loc[k].spreadMinBps + 10

\* both rates over OIBOR are below the floors, which then set the spreads
C10_Witness ==
    \E k \in Buckets :
        /\ roundBps(loc[k].rateMin, In.oiborPct) < minCoreSpreadBps
        /\ roundBps(loc[k].rateMax, In.oiborPct) < minCoreSpreadBps + 10
        /\ rows[k].flMinBps = minCoreSpreadBps
        /\ rows[k].flMaxBps = minCoreSpreadBps + 10

\* a breakeven cell: a month from 1 on, or the sentinel
ValidBreakeven(be) == be = NotWithinTenor \/ be >= 1

\* C11: zero-sales fallback.  For a utilization product with sales <= 0 a
\* click produces all three bucket rows; the composite risk is the clamp of
\* product factor * industry factor * score factor * 1.20 (the fallback of
\* wcsFactor, no wc / sales division) and lies in [0.4, 3.5]; the breakeven of
\* every row is a month >= 1 or the sentinel.
C11_ZeroSalesFallback ==
    [][(~In.isFund /\ In.salesOmr <= 0) =>
          /\ DOMAIN rows' = 1..Len(BUCKETS)
          /\ \A k \in 1..Len(BUCKETS) :
                /\ rows'[k].bucket = BUCKETS[k]
                /\ loc'[k].riskBase =
                      rclamp(RMul(RMul(RMul(productFactor(In.product), industryFactor(In.industry)),
                                       malaaFactor(In.malaaScore)),
                                  Rat(120, 100)),
                             RISK_MIN, RISK_MAX)
                /\ RLe(RISK_MIN, loc'[k].riskBase) /\ RLe(loc'[k].riskBase, RISK_MAX)
                /\ ValidBreakeven(rows'[k].beRep)]_vars

\* a utilization product with sales 0 whose rows show a month, the composite
\* risk strictly inside its range
C11_Witness ==
    /\ ~In.isFund
    /\ In.salesOmr = 0
    /\ In.loanQuantumOmr > 0
    /\ DOMAIN rows = 1..Len(BUCKETS)
    /\ RLt(RISK_MIN, loc[1].riskBase) /\ RLt(loc[1].riskBase, RISK_MAX)
    /\ \A k \in Buckets : rows[k].beRep >= 1

\* C12: realized fund NIM.  For a fund product with a loan quantum above 0
\* and a tenor of at least 6 months, the NIM% that fundFirstYearMetrics
\* reports at the final repRate is, in every bucket row, at least the target
\* NIM less 0.02 (the roundings of requiredRate and of the reported NIM%).
C12_RealizedFundNim ==
    (In.isFund /\ In.loanQuantumOmr > 0 /\ In.tenorMonths >= 6) =>
        \A k \in Buckets : rows[k].NIMpct >= In.targetNimPct - 200

\* C13: minimum rate gap at a market bound.  In every bucket row
\* rateMax >= rateMin + 0.10 and rateMax <= 12.00, also when both rebuilt band
\* ends clamp to the same market bound.
C13_MinRateGap ==
    \A k \in Buckets :
        /\ rows[k].rateMax >= rows[k].rateMin + 1000
        /\ rows[k].rateMax <= RATE_MAX

\* the cumulative net was below 0 after each of the months 1..n
NegativeThrough(n) == \A k \in 1..n : call.cums[k] < 0

\* C14: fund breakeven is the first crossing over the full tenor.  In a call
\* of fundBreakevenMonths with P > 0, tenorM > 0 and rate > 0 the cumulative
\* net starts at -(upfrontCostPct/100 * P); the loop makes at most tenorM
\* passes, goes on only while the cumulative net is below 0, and the balance
\* is never below 0; the call returns m in 1..tenorM exactly when the
\* cumulative net is >= 0 after month m and < 0 after every earlier month, and
\* the sentinel exactly when it is < 0 after each of the months 1..tenorM.
\* The value is the one the click handler gets.
C14_FirstCrossing ==
    (call.pc \in {"loop", "done"} /\ call.fn = "fundBreakevenMonths" /\ ~callGuard) =>
        /\ call.pc = "loop" =>
              /\ call.s.bal >= 0
              /\ Len(call.cums) <= call.tenorM
              /\ call.cums = <<>> =>
                    call.s.cum = -annualOf(call.P, call.upfrontCostPct) /\ call.s.m = 1
              /\ call.cums # <<>> => call.s.cum = call.cums[Len(call.cums)]
              /\ NegativeThrough(Len(call.cums) - 1)
              /\ call.s.ret = 0 =>
                    NegativeThrough(Len(call.cums)) /\ call.s.m = Len(call.cums) + 1
              /\ call.s.ret # 0 =>
                    /\ call.s.ret = Len(call.cums)
                    /\ call.s.m = call.s.ret
                    /\ call.cums[call.s.ret] >= 0
        /\ call.pc = "done" =>
              /\ call.result = fundBreakevenMonths(call.P, call.tenorM, call.ratePct, call.feesPct,
                                                   call.cofPct, call.provPct, call.opexPct,
                                                   call.upfrontCostPct)
              /\ call.result # NotWithinTenor =>
                    /\ call.result \in 1..call.tenorM
                    /\ Len(call.cums) = call.result
                    /\ call.cums[call.result] >= 0
                    /\ NegativeThrough(call.result - 1)
              /\ call.result = NotWithinTenor =>
                    Len(call.cums) = call.tenorM /\ NegativeThrough(call.tenorM)

\* a call that returned a month after several months below 0 and before the
\* end of the tenor
C14_Witness ==
    /\ call.pc = "done"
    /\ call.fn = "fundBreakevenMonths"
    /\ ~callGuard
    /\ call.result >= 6
    /\ call.result < call.tenorM
    /\ call.cums[call.result] >= 0
    /\ NegativeThrough(call.result - 1)

\* C15: zero-rate EMI fallback.  A call of fundFirstYearMetrics with
\* repRate = 0, P > 0 and tenorM > 0 returns EMI = P / tenorM to 2 decimals.
C15_ZeroRateEmi ==
    (/\ call.pc = "done"
     /\ call.fn = "fundFirstYearMetrics"
     /\ call.ratePct = 0
     /\ call.P > 0
     /\ call.tenorM > 0)
        => Abs(call.result.EMI - f2m(call.P \div call.tenorM)) <= 10

\* averageExposure = limit * utilization, in mOMR
AverageExposure == Max2(In.loanQuantumOmr, 0) * 10000 * uMedMap(In.industry)

\* C16: utilization NII.  For a utilization product the NIM% of each bucket
\* row is marginPercent = repRate + fees - cost of funds - provision - opex
\* of the row, and the row's NII is NIM%/100 * averageExposure with
\* averageExposure = limit * utilization, both up to the 2-decimal rounding
\* of the row's cells (0.01 on the percentages, 0.05 OMR on the amounts).
C16_UtilNii ==
    ~In.isFund =>
        \A k \in Buckets :
            /\ Abs(rows[k].NIMpct - MarginOf(k)) <= 100
            /\ Abs(rows[k].nii - annualOf(AverageExposure, rows[k].NIMpct))
                  <= annualOf(AverageExposure, 100) + 50

\* C17: bucket price ordering.  After a click the three rows are those of
\* Low, Medium, High in this order and the final repRate does not decrease
\* along them.
C17_BucketPriceOrdering ==
    [][/\ DOMAIN rows' = 1..Len(BUCKETS)
       /\ \A k \in 1..Len(BUCKETS) : rows'[k].bucket = BUCKETS[k]
       /\ rows'[1].repRate <= rows'[2].repRate
       /\ rows'[2].repRate <= rows'[3].repRate]_vars

====
